---- MODULE Spec2Model ----
(***************************************************************************)
(* The adaptive fetch/cache policy of FootballFixtures                     *)
(* (src/src/plugins/football_fixtures/football_fixtures.py).                *)
(*                                                                         *)
(* Time is the wall clock in seconds since local midnight of day 0; the    *)
(* poller is constructed at StartTime, half a minute before midnight.  One *)
(* call of get_next_or_live_fixture() is one action; the upstream answers  *)
(* it receives (one per league) are its inputs.  Python's None is NoTime   *)
(* for a timestamp or a date and NoFixture for a fixture record; a Python  *)
(* string is the sequence of its characters (a formatted number is one     *)
(* element), so that "'FT' in status" is a real substring search.          *)
(*                                                                         *)
(* Assumptions on the environment: the clock does not move during a call   *)
(* (every datetime.now() of one call reads the same instant), it never     *)
(* goes back, and the configured display timezone is the system's local    *)
(* one, so that match_date.date() and datetime.now().date() are dates of   *)
(* the same calendar.                                                      *)
(*                                                                         *)
(* Six specifications share the variables: Spec (one poller called again   *)
(* and again as the clock advances), SpecSelect (the first call, against   *)
(* every upstream), SpecWeb (the endpoint /api/football/fixture of         *)
(* src/src/blueprints/main.py), SpecConc (two threads calling one poller,  *)
(* statement by statement), SpecFormat (_format_fixture over a pool of     *)
(* events) and SpecImage (the endpoint /api/current_image, on the epoch    *)
(* clock and in several server timezones).                                 *)
(***************************************************************************)
EXTENDS Integers, Sequences, FiniteSets, TLC

VARIABLES
    now,                \* datetime.now(): the wall clock
    last_fetch_time,    \* self.last_fetch_time
    cached_fixture,     \* self.cached_fixture
    fetch_count_today,  \* self.fetch_count_today
    last_fetch_date,    \* self.last_fetch_date
    call,               \* observation of the call just made (see NoCall)
    dormant_fetches,    \* history: the fetches started on calendar day .date
                        \* while the cached fixture was dormant
    attempts,           \* history: the polls started since the last
                        \* day-rollover reset
    web,                \* observation of the requests to /api/football/fixture
    threads,            \* the callers running get_next_or_live_fixture()
                        \* concurrently on the one poller
    formatted,          \* observation of a call of _format_fixture
    image               \* /api/current_image: the server's environment, the
                        \* image file, the request just served and what the
                        \* client holds

vars == <<now, last_fetch_time, cached_fixture, fetch_count_today,
          last_fetch_date, call, dormant_fetches, attempts, web, threads,
          formatted, image>>

\* What the sequential calls of the poller and the clock leave alone
others == <<web, threads, formatted, image>>

-----------------------------------------------------------------------------
(* Program constants *)

Day == 86400
ActiveGap == 60
DormantGap == 17280
DailyLimit == 5

(* Bounds of the exploration *)

MaxShort == 2
MaxLong == 5
MaxCount == 6
SelMaxShort == 2
SelMaxLong == 1

\* The two clock steps: half the active window and the whole dormant one, so
\* that a call can arrive inside either window, exactly at its end, and after it.
ShortTick == ActiveGap \div 2
LongTick == DormantGap

\* The clock at construction: the last ShortTick of day 0
StartTime == Day - ShortTick

NoTime == 0 - 1
NoFixture == [present |-> FALSE]

\* datetime.date(): the calendar day of a timestamp
DateOf(t) == t \div Day

-----------------------------------------------------------------------------
(* Strings *)

RECURSIVE IsPrefix(_, _)
IsPrefix(p, s) ==
    IF p = <<>> THEN TRUE
    ELSE IF s = <<>> THEN FALSE
    ELSE Head(p) = Head(s) /\ IsPrefix(Tail(p), Tail(s))

\* Python's "sub in s"
RECURSIVE Contains(_, _)
Contains(s, sub) ==
    IF IsPrefix(sub, s) THEN TRUE
    ELSE IF s = <<>> THEN FALSE
    ELSE Contains(Tail(s), sub)

\* Python's "a or b" on strings
StrOr(a, b) == IF a # <<>> THEN a ELSE b

TwoDigits(n) == IF n < 10 THEN <<"0", ToString(n)>> ELSE <<ToString(n)>>

MonthAbbr == <<"J", "a", "n">>

\* match_date.strftime("%d %b %H:%M"); day 0 of the clock is the 1st of the month
Strftime(t) ==
    TwoDigits(DateOf(t) + 1) \o <<" ">> \o MonthAbbr \o <<" ">>
        \o TwoDigits((t % Day) \div 3600) \o <<":">>
        \o TwoDigits((t % 3600) \div 60)

-----------------------------------------------------------------------------
(* The configured leagues, in priority order *)

leagues ==
    <<"Premier League", "Champions League", "Carabao Cup", "FA Cup">>

NumLeagues == Len(leagues)

-----------------------------------------------------------------------------
(* _format_fixture *)

\* The statuses that count as live
LiveStatusTypes == {"STATUS_IN_PROGRESS", "STATUS_HALFTIME", "STATUS_END_PERIOD"}

\* datetime.fromisoformat(date_str.replace('Z', '+00:00')).astimezone(tz):
\* an ISO text parses to the instant it denotes, any other text raises
FromIsoFormat(date_str) ==
    IF date_str.text = "iso" THEN [ok |-> TRUE, t |-> date_str.t]
    ELSE [ok |-> FALSE, t |-> NoTime]

\* The loop over the competitors: the last one flagged 'home' is the home
\* team, the last one not flagged 'home' the away team (None: <<>>)
RECURSIVE LastWhere(_, _)
LastWhere(cs, isHome) ==
    IF cs = <<>> THEN <<>>
    ELSE LET c == cs[Len(cs)]
         IN  IF (c.homeAway = "home") = isHome THEN <<c>>
             ELSE LastWhere(SubSeq(cs, 1, Len(cs) - 1), isHome)

HomeAway(competitors) ==
    LET h == LastWhere(competitors, TRUE)
        a == LastWhere(competitors, FALSE)
    IN  IF h = <<>> \/ a = <<>>
        THEN [home |-> competitors[1], away |-> competitors[2]]
        ELSE [home |-> h[1], away |-> a[1]]

\* Lines 187-214: the status display and the match date
StatusOf(competition) ==
    LET st == competition.status
        is_live == st.type \in LiveStatusTypes
    IN  IF is_live THEN
            [match_date |-> NoTime,
             status |->
                IF st.period = 1 THEN st.displayClock \o <<"'", " ", "1", "H">>
                ELSE IF st.period = 2 THEN st.displayClock \o <<"'", " ", "2", "H">>
                ELSE IF st.type = "STATUS_HALFTIME" THEN <<"H", "T">>
                ELSE StrOr(st.shortDetail, <<"L", "I", "V", "E">>)]
        ELSE IF st.type = "STATUS_FINAL" THEN
            [match_date |-> NoTime, status |-> <<"F", "T">>]
        ELSE IF competition.date.text # "empty" THEN
            LET parsed == FromIsoFormat(competition.date)
            IN  IF parsed.ok
                THEN [match_date |-> parsed.t, status |-> Strftime(parsed.t)]
                ELSE [match_date |-> NoTime,
                      status |-> StrOr(st.shortDetail,
                                       <<"S","c","h","e","d","u","l","e","d">>)]
        ELSE [match_date |-> NoTime,
              status |-> StrOr(st.shortDetail,
                               <<"S","c","h","e","d","u","l","e","d">>)]

\* Mutation: the date is parsed outside a try of its own, so that a date that
\* does not parse ends the formatting in the outer handler, which returns None
_format_fixture_unguarded(event, league_name) ==
    IF event.competitions = <<>> THEN NoFixture
    ELSE LET competition == event.competitions[1]
             competitors == competition.competitors
         IN  IF Len(competitors) < 2 THEN NoFixture
             ELSE IF /\ competition.status.type \notin LiveStatusTypes
                     /\ competition.status.type # "STATUS_FINAL"
                     /\ competition.date.text # "empty"
                     /\ ~FromIsoFormat(competition.date).ok
             THEN NoFixture
             ELSE LET ha == HomeAway(competitors)
                      sd == StatusOf(competition)
                  IN  [present    |-> TRUE,
                       home_team  |-> ha.home.name,
                       away_team  |-> ha.away.name,
                       score      |-> <<ha.home.score, ha.away.score>>,
                       status     |-> sd.status,
                       is_live    |-> competition.status.type \in LiveStatusTypes,
                       league     |-> league_name,
                       match_date |-> sd.match_date]

\* _format_fixture(event, league_name): a fixture record, or NoFixture (None)
_format_fixture(event, league_name) ==
    IF event.competitions = <<>> THEN NoFixture
    ELSE LET competition == event.competitions[1]
             competitors == competition.competitors
         IN  IF Len(competitors) < 2 THEN NoFixture
             ELSE LET ha == HomeAway(competitors)
                      sd == StatusOf(competition)
                  IN  [present    |-> TRUE,
                       home_team  |-> ha.home.name,
                       away_team  |-> ha.away.name,
                       score      |-> <<ha.home.score, ha.away.score>>,
                       status     |-> sd.status,
                       is_live    |-> competition.status.type \in LiveStatusTypes,
                       league     |-> league_name,
                       match_date |-> sd.match_date]

-----------------------------------------------------------------------------
(* should_fetch *)

\* _is_game_day(fixture), evaluated at clock t
_is_game_day(fixture, t) ==
    IF fixture.is_live THEN TRUE
    ELSE IF Contains(fixture.status, <<"F", "T">>)
            \/ Contains(fixture.status, <<"L", "I", "V", "E">>) THEN TRUE
    ELSE IF fixture.match_date # NoTime
         THEN DateOf(fixture.match_date) = DateOf(t)
    ELSE FALSE

\* Lines 33-36: the daily counter and its date after the day-rollover reset
ResetDaily(count, date, t) ==
    IF date # DateOf(t)
    THEN [fetch_count_today |-> 0, last_fetch_date |-> DateOf(t)]
    ELSE [fetch_count_today |-> count, last_fetch_date |-> date]

\* Mutation: the window is closed at its end as well (<= for <)
ActiveAllows_closed(lft, t) == ~(lft # NoTime /\ t - lft <= ActiveGap)

\* Lines 43-46: live or game day
ActiveAllows(lft, t) == ~(lft # NoTime /\ t - lft < ActiveGap)

\* Mutation: the quota is exceeded only above the limit (> for >=)
DormantAllows_above(count, lft, t) ==
    IF count > DailyLimit THEN FALSE
    ELSE ~(lft # NoTime /\ t - lft < DormantGap)

\* Mutation: a non-game day is not limited at all
DormantAllows_unlimited(count, lft, t) == TRUE

\* Lines 47-55: not a game day
DormantAllows(count, lft, t) ==
    IF count >= DailyLimit THEN FALSE
    ELSE ~(lft # NoTime /\ t - lft < DormantGap)

\* Mutation: without a cached fixture the limits of a non-game day apply
FetchAllowed_absent_limited(cached, lft, count, t) ==
    IF cached # NoFixture THEN
        IF cached.is_live \/ _is_game_day(cached, t)
        THEN ActiveAllows(lft, t)
        ELSE DormantAllows(count, lft, t)
    ELSE DormantAllows(count, lft, t)

\* Lines 38-57: the decision, on the counter as ResetDaily left it
FetchAllowed(cached, lft, count, t) ==
    IF cached # NoFixture THEN
        IF cached.is_live \/ _is_game_day(cached, t)
        THEN ActiveAllows(lft, t)
        ELSE DormantAllows(count, lft, t)
    ELSE TRUE

\* Mutation: a blocked call leaves the counter and its date as they were
should_fetch_lazy_reset(cached, lft, count, date, t) ==
    LET r == ResetDaily(count, date, t)
        ok == FetchAllowed(cached, lft, r.fetch_count_today, t)
    IN  [ok                |-> ok,
         fetch_count_today |-> IF ok THEN r.fetch_count_today ELSE count,
         last_fetch_date   |-> IF ok THEN r.last_fetch_date ELSE date]

\* Mutation: the decision is taken on the counter as stored, the reset after it
should_fetch_stale(cached, lft, count, date, t) ==
    LET r == ResetDaily(count, date, t)
    IN  [ok                |-> FetchAllowed(cached, lft, count, t),
         fetch_count_today |-> r.fetch_count_today,
         last_fetch_date   |-> r.last_fetch_date]

\* Mutation: the date is written with the fetch only, a blocked call keeps it
should_fetch_date_of_fetch(cached, lft, count, date, t) ==
    LET r  == ResetDaily(count, date, t)
        ok == FetchAllowed(cached, lft, r.fetch_count_today, t)
    IN  [ok                |-> ok,
         fetch_count_today |-> r.fetch_count_today,
         last_fetch_date   |-> IF ok THEN r.last_fetch_date ELSE date]

\* Mutation: the day-rollover reset forgets the last fetch as well, so that
\* the gates are measured within the day only
should_fetch_new_day_forgets(cached, lft, count, date, t) ==
    LET r == ResetDaily(count, date, t)
        since == IF date # DateOf(t) THEN NoTime ELSE lft
    IN  [ok                |-> FetchAllowed(cached, since, r.fetch_count_today, t),
         fetch_count_today |-> r.fetch_count_today,
         last_fetch_date   |-> r.last_fetch_date]

\* should_fetch(): its result and the two fields it writes
should_fetch(cached, lft, count, date, t) ==
    LET r == ResetDaily(count, date, t)
    IN  [ok                |-> FetchAllowed(cached, lft, r.fetch_count_today, t),
         fetch_count_today |-> r.fetch_count_today,
         last_fetch_date   |-> r.last_fetch_date]

-----------------------------------------------------------------------------
(* The upstream: events and answers *)

\* An upstream answer to requests.get: the call raises (network error,
\* timeout), or returns a status code and a body; a body that is not JSON, or
\* not of the expected shape, raises in lines 111-115.
Raises == [raises |-> TRUE, status_code |-> 0, body_ok |-> FALSE, nextEvent |-> <<>>]
Http(code, ok) == [raises |-> FALSE, status_code |-> code, body_ok |-> ok, nextEvent |-> <<>>]
Json(events) == [raises |-> FALSE, status_code |-> 200, body_ok |-> TRUE, nextEvent |-> events]

Flagged ==
    << [homeAway |-> "home", name |-> "Chelsea", score |-> "2"],
       [homeAway |-> "away", name |-> "Arsenal", score |-> "1"] >>
Unflagged ==
    << [homeAway |-> "", name |-> "Chelsea", score |-> "0"],
       [homeAway |-> "", name |-> "Arsenal", score |-> "0"] >>

Iso(t) == [text |-> "iso", t |-> t]
Garbage == [text |-> "garbage", t |-> NoTime]
Empty == [text |-> "empty", t |-> NoTime]

Event(competitors, type, period, clock, detail, date) ==
    [competitions |->
        << [competitors |-> competitors,
            status |-> [type |-> type, period |-> period,
                        displayClock |-> clock, shortDetail |-> detail],
            date |-> date] >>]

EvLive == Event(Flagged, "STATUS_IN_PROGRESS", 2, <<"72">>, <<>>, Iso(0))
EvFinal == Event(Flagged, "STATUS_FINAL", 2, <<"90">>, <<"F", "T">>, Iso(0))
EvSched(t) == Event(Flagged, "STATUS_SCHEDULED", 0, <<"0">>, <<>>, Iso(t))
EvPostponed ==
    Event(Unflagged, "STATUS_POSTPONED", 0, <<"0">>,
          <<"P","o","s","t","p","o","n","e","d">>, Garbage)
EvUnscheduled == Event(Flagged, "STATUS_SCHEDULED", 0, <<"0">>, <<>>, Garbage)
EvNoCompetition == [competitions |-> <<>>]

\* Kick-off times: at construction (day 0), one and many minutes into day 1,
\* and far beyond the horizon
Eve == StartTime
Tomorrow == StartTime + ActiveGap
Later == StartTime + 2 * LongTick
NextWeek == 7 * Day

\* The answers the upstream gives, by name: a call is told one per league
Answer(name) ==
    CASE name = "raise"     -> Raises
      [] name = "503"       -> Http(503, FALSE)
      [] name = "404"       -> Http(404, FALSE)
      [] name = "garbage"   -> Http(200, FALSE)
      [] name = "none"      -> Json(<<>>)
      [] name = "malformed" -> Json(<<EvNoCompetition>>)
      [] name = "live"      -> Json(<<EvLive>>)
      [] name = "final"     -> Json(<<EvFinal>>)
      [] name = "postponed" -> Json(<<EvPostponed>>)
      [] name = "unscheduled" -> Json(<<EvUnscheduled>>)
      [] name = "eve"       -> Json(<<EvSched(Eve)>>)
      [] name = "tomorrow"  -> Json(<<EvSched(Tomorrow)>>)
      [] name = "later"     -> Json(<<EvSched(Later)>>)
      [] name = "nextweek"  -> Json(<<EvSched(NextWeek)>>)

\* The upstream as the policy is explored against it
PolicyWorlds ==
    { <<"503", "404", "503", "404">>,
      <<"404", "503", "raise", "raise">>,
      <<"none", "none", "none", "none">>,
      <<"nextweek", "none", "none", "none">>,
      <<"tomorrow", "none", "none", "none">>,
      <<"none", "none", "live", "none">>,
      <<"final", "none", "none", "none">>,
      <<"nextweek", "503", "live", "none">>,
      <<"nextweek", "raise", "live", "none">>,
      <<"final", "malformed", "garbage", "live">> }

\* The upstream as the selection is explored against it: every combination
\* of these answers
SelectAnswers == {"none", "live", "final", "eve", "tomorrow", "later"}
SelectWorlds == [1..NumLeagues -> SelectAnswers]

-----------------------------------------------------------------------------
(* get_next_or_live_fixture *)

\* Lines 99-119: the loop over the leagues from league i on, all_fixtures
\* being acc so far.  exc: an exception left the loop; queried: the number of
\* requests made.
RECURSIVE CollectFixtures(_, _, _)
CollectFixtures(i, acc, resp) ==
    IF i > NumLeagues THEN [exc |-> FALSE, all_fixtures |-> acc, queried |-> NumLeagues]
    ELSE LET response == Answer(resp[i])
         IN  IF response.raises
             THEN [exc |-> TRUE, all_fixtures |-> acc, queried |-> i]
             ELSE IF response.status_code # 200
             THEN CollectFixtures(i + 1, acc, resp)
             ELSE IF ~response.body_ok
             THEN [exc |-> TRUE, all_fixtures |-> acc, queried |-> i]
             ELSE IF response.nextEvent # <<>>
             THEN LET fixture == _format_fixture(response.nextEvent[1], leagues[i])
                  IN  IF fixture # NoFixture
                      THEN CollectFixtures(i + 1, Append(acc, fixture), resp)
                      ELSE CollectFixtures(i + 1, acc, resp)
             ELSE CollectFixtures(i + 1, acc, resp)

AbsDiff(a, b) == IF a >= b THEN a - b ELSE b - a

IsLive(f) == f.is_live
HasDate(f) == f.match_date # NoTime

\* Mutation: the key is the signed difference (abs forgotten)
NearestFixture_signed(fixtures, t) ==
    LET key(k) == fixtures[k].match_date - t
        i == CHOOSE k \in 1..Len(fixtures) :
                /\ \A j \in 1..Len(fixtures) : key(k) <= key(j)
                /\ \A j \in 1..(k - 1) : key(j) > key(k)
    IN  fixtures[i]

\* min(fixtures, key=...): the first element with the least key
NearestFixture(fixtures, t) ==
    LET key(k) == AbsDiff(fixtures[k].match_date, t)
        i == CHOOSE k \in 1..Len(fixtures) :
                /\ \A j \in 1..Len(fixtures) : key(k) <= key(j)
                /\ \A j \in 1..(k - 1) : key(j) > key(k)
    IN  fixtures[i]

\* Mutation: the nearest dated fixture is preferred to a live one
SelectFixture_nearest_first(all_fixtures, t) ==
    LET live_fixtures == SelectSeq(all_fixtures, IsLive)
        fixtures_with_dates == SelectSeq(all_fixtures, HasDate)
    IN  IF fixtures_with_dates # <<>> THEN NearestFixture(fixtures_with_dates, t)
        ELSE IF live_fixtures # <<>> THEN live_fixtures[1]
        ELSE all_fixtures[1]

\* Lines 122-144: the fixture selected from a non-empty all_fixtures
SelectFixture(all_fixtures, t) ==
    LET live_fixtures == SelectSeq(all_fixtures, IsLive)
        fixtures_with_dates == SelectSeq(all_fixtures, HasDate)
    IN  IF live_fixtures # <<>> THEN live_fixtures[1]
        ELSE IF fixtures_with_dates # <<>> THEN NearestFixture(fixtures_with_dates, t)
        ELSE all_fixtures[1]

\* Mutation: the exception is not caught
OnException_propagates(cached) == [raised |-> TRUE, ret |-> NoFixture]

\* Lines 149-151: the except clause
OnException(cached) == [raised |-> FALSE, ret |-> cached]

\* Mutation: a poll without candidates clears the cache
Poll_clears(cached, t, resp) ==
    LET c == CollectFixtures(1, <<>>, resp)
    IN  IF c.all_fixtures # <<>> /\ ~c.exc
        THEN LET f == SelectFixture(c.all_fixtures, t)
             IN  [raised |-> FALSE, exc |-> FALSE, ret |-> f,
                  cached_fixture |-> f, queried |-> c.queried,
                  all_fixtures |-> c.all_fixtures]
        ELSE [raised |-> FALSE, exc |-> c.exc, ret |-> NoFixture,
              cached_fixture |-> NoFixture, queried |-> c.queried,
              all_fixtures |-> c.all_fixtures]

\* Mutation: a poll that finds a fixture while one is cached refreshes the
\* score, status and live flag of the cached record and keeps the rest
Poll_merges(cached, t, resp) ==
    LET c == CollectFixtures(1, <<>>, resp)
    IN  IF c.exc
        THEN [raised |-> FALSE, exc |-> TRUE, ret |-> cached,
              cached_fixture |-> cached, queried |-> c.queried,
              all_fixtures |-> c.all_fixtures]
        ELSE IF c.all_fixtures # <<>>
        THEN LET f == SelectFixture(c.all_fixtures, t)
                 g == IF cached = NoFixture THEN f
                      ELSE [cached EXCEPT !.score = f.score,
                                          !.status = f.status,
                                          !.is_live = f.is_live]
             IN  [raised |-> FALSE, exc |-> FALSE, ret |-> g,
                  cached_fixture |-> g, queried |-> c.queried,
                  all_fixtures |-> c.all_fixtures]
        ELSE [raised |-> FALSE, exc |-> FALSE, ret |-> cached,
              cached_fixture |-> cached, queried |-> c.queried,
              all_fixtures |-> c.all_fixtures]

\* Mutation: a poll ended by an exception forgets the cached fixture
Poll_forgets_on_exception(cached, t, resp) ==
    LET c == CollectFixtures(1, <<>>, resp)
    IN  IF c.exc
        THEN [raised |-> FALSE, exc |-> TRUE, ret |-> NoFixture,
              cached_fixture |-> NoFixture, queried |-> c.queried,
              all_fixtures |-> c.all_fixtures]
        ELSE IF c.all_fixtures # <<>>
        THEN LET f == SelectFixture(c.all_fixtures, t)
             IN  [raised |-> FALSE, exc |-> FALSE, ret |-> f,
                  cached_fixture |-> f, queried |-> c.queried,
                  all_fixtures |-> c.all_fixtures]
        ELSE [raised |-> FALSE, exc |-> FALSE, ret |-> cached,
              cached_fixture |-> cached, queried |-> c.queried,
              all_fixtures |-> c.all_fixtures]

\* Lines 95-151: the poll, once should_fetch() has allowed it
Poll(cached, t, resp) ==
    LET c == CollectFixtures(1, <<>>, resp)
    IN  IF c.exc
        THEN LET h == OnException(cached)
             IN  [raised |-> h.raised, exc |-> TRUE, ret |-> h.ret,
                  cached_fixture |-> cached, queried |-> c.queried,
                  all_fixtures |-> c.all_fixtures]
        ELSE IF c.all_fixtures # <<>>
        THEN LET f == SelectFixture(c.all_fixtures, t)
             IN  [raised |-> FALSE, exc |-> FALSE, ret |-> f,
                  cached_fixture |-> f, queried |-> c.queried,
                  all_fixtures |-> c.all_fixtures]
        ELSE [raised |-> FALSE, exc |-> FALSE, ret |-> cached,
              cached_fixture |-> cached, queried |-> c.queried,
              all_fixtures |-> c.all_fixtures]

\* What is observed of a call, until the clock moves: whether it fetched, the
\* upstream answers it was given (<<>> when it made no request), how many
\* requests it made, whether an exception was caught, whether one reached the
\* caller, and the value returned.
NoCall ==
    [made |-> FALSE,
     pre |-> [cached_fixture |-> NoFixture, last_fetch_time |-> NoTime,
              fetch_count_today |-> 0, last_fetch_date |-> NoTime],
     fetched |-> FALSE, resp |-> <<>>, queried |-> 0,
     exc |-> FALSE, raised |-> FALSE, ret |-> NoFixture]

\* The poller's fields after construction
Pre0 ==
    [cached_fixture |-> NoFixture, last_fetch_time |-> NoTime,
     fetch_count_today |-> 0, last_fetch_date |-> NoTime]

\* The poller's fields as a call finds them
Pre ==
    [cached_fixture |-> cached_fixture, last_fetch_time |-> last_fetch_time,
     fetch_count_today |-> fetch_count_today, last_fetch_date |-> last_fetch_date]

\* The spec's classification of the cache at clock t
Active(cached, t) == cached # NoFixture /\ (cached.is_live \/ _is_game_day(cached, t))
Dormant(cached, t) == cached # NoFixture /\ ~Active(cached, t)

\* The history of dormant fetches after a call at clock t
CountDormant(h, fetched, cached, t) ==
    LET today == IF h.date = DateOf(t) THEN h ELSE [date |-> DateOf(t), n |-> 0]
    IN  IF fetched /\ Dormant(cached, t)
        THEN [today EXCEPT !.n = today.n + 1]
        ELSE today

\* The history of polls after a call at clock t that found the date `date`
CountAttempts(n, date, fetched, t) ==
    (IF date # DateOf(t) THEN 0 ELSE n) + (IF fetched THEN 1 ELSE 0)

\* Mutation: the fetch is recorded after the requests, so that a poll ended
\* by an exception leaves last_fetch_time and fetch_count_today as they were
get_next_or_live_fixture_late_tracking(resp) ==
    \E sf \in {should_fetch(cached_fixture, last_fetch_time, fetch_count_today,
                            last_fetch_date, now)} :
        /\ last_fetch_date' = sf.last_fetch_date
        /\ IF ~sf.ok
           THEN /\ fetch_count_today' = sf.fetch_count_today
                /\ UNCHANGED <<last_fetch_time, cached_fixture>>
                /\ call' = [made |-> TRUE, pre |-> Pre, fetched |-> FALSE,
                            resp |-> <<>>, queried |-> 0, exc |-> FALSE,
                            raised |-> FALSE, ret |-> cached_fixture]
           ELSE \E p \in {Poll(cached_fixture, now, resp)} :
                    /\ sf.fetch_count_today < MaxCount
                    /\ last_fetch_time' =
                          IF p.exc THEN last_fetch_time ELSE now
                    /\ fetch_count_today' =
                          sf.fetch_count_today + (IF p.exc THEN 0 ELSE 1)
                    /\ cached_fixture' = p.cached_fixture
                    /\ call' = [made |-> TRUE, pre |-> Pre, fetched |-> TRUE,
                                resp |-> resp, queried |-> p.queried,
                                exc |-> p.exc, raised |-> p.raised, ret |-> p.ret]
        /\ dormant_fetches' =
              CountDormant(dormant_fetches, sf.ok, cached_fixture, now)
        /\ attempts' = CountAttempts(attempts, last_fetch_date, sf.ok, now)
        /\ UNCHANGED <<now, others>>

\* Mutation: only the polls made with a dormant cache are counted
get_next_or_live_fixture_counts_dormant_only(resp) ==
    \E sf \in {should_fetch(cached_fixture, last_fetch_time, fetch_count_today,
                            last_fetch_date, now)} :
        /\ last_fetch_date' = sf.last_fetch_date
        /\ IF ~sf.ok
           THEN /\ fetch_count_today' = sf.fetch_count_today
                /\ UNCHANGED <<last_fetch_time, cached_fixture>>
                /\ call' = [made |-> TRUE, pre |-> Pre, fetched |-> FALSE,
                            resp |-> <<>>, queried |-> 0, exc |-> FALSE,
                            raised |-> FALSE, ret |-> cached_fixture]
           ELSE \E p \in {Poll(cached_fixture, now, resp)} :
                    /\ sf.fetch_count_today < MaxCount
                    /\ last_fetch_time' = now
                    /\ fetch_count_today' =
                          sf.fetch_count_today
                              + (IF Dormant(cached_fixture, now) THEN 1 ELSE 0)
                    /\ cached_fixture' = p.cached_fixture
                    /\ call' = [made |-> TRUE, pre |-> Pre, fetched |-> TRUE,
                                resp |-> resp, queried |-> p.queried,
                                exc |-> p.exc, raised |-> p.raised, ret |-> p.ret]
        /\ dormant_fetches' =
              CountDormant(dormant_fetches, sf.ok, cached_fixture, now)
        /\ attempts' = CountAttempts(attempts, last_fetch_date, sf.ok, now)
        /\ UNCHANGED <<now, others>>

\* get_next_or_live_fixture(), the upstream answering resp.  The exploration
\* stops counting at MaxCount fetches in a day.
get_next_or_live_fixture(resp) ==
    \E sf \in {should_fetch(cached_fixture, last_fetch_time, fetch_count_today,
                            last_fetch_date, now)} :
        /\ last_fetch_date' = sf.last_fetch_date
        /\ IF ~sf.ok
           THEN /\ fetch_count_today' = sf.fetch_count_today
                /\ UNCHANGED <<last_fetch_time, cached_fixture>>
                /\ call' = [made |-> TRUE, pre |-> Pre, fetched |-> FALSE,
                            resp |-> <<>>, queried |-> 0, exc |-> FALSE,
                            raised |-> FALSE, ret |-> cached_fixture]
           ELSE \E p \in {Poll(cached_fixture, now, resp)} :
                    /\ sf.fetch_count_today < MaxCount
                    /\ last_fetch_time' = now
                    /\ fetch_count_today' = sf.fetch_count_today + 1
                    /\ cached_fixture' = p.cached_fixture
                    /\ call' = [made |-> TRUE, pre |-> Pre, fetched |-> TRUE,
                                resp |-> resp, queried |-> p.queried,
                                exc |-> p.exc, raised |-> p.raised, ret |-> p.ret]
        /\ dormant_fetches' =
              CountDormant(dormant_fetches, sf.ok, cached_fixture, now)
        /\ attempts' = CountAttempts(attempts, last_fetch_date, sf.ok, now)
        /\ UNCHANGED <<now, others>>

-----------------------------------------------------------------------------
(* get_next_or_live_fixture() called from several threads.  The poller holds
   no lock, so the statements of two calls interleave; a thread can be
   preempted between any two of the steps below, and gives up the interpreter
   for certain while it waits for the upstream. *)

ConcMaxShort == 2
ConcMaxAttempts == 3

\* The upstream during the concurrent calls: no fixture, or a live one
ConcWorlds ==
    {<<"none", "none", "none", "none">>, <<"none", "none", "live", "none">>}

\* The concurrent callers, and a caller outside get_next_or_live_fixture()
Threads == {1, 2}
Idle ==
    [pc |-> "idle", seen |-> Pre0, count |-> 0, resp |-> <<>>,
     ret |-> NoFixture]

\* The statements between should_fetch() returning True and the return
InCall == {"stamp", "load", "store", "poll"}

\* Line 85: should_fetch(), and the return of the cache when it says no
Enter(th, resp) ==
    /\ threads[th].pc = "idle"
    /\ attempts < ConcMaxAttempts
    /\ \E sf \in {should_fetch(cached_fixture, last_fetch_time,
                              fetch_count_today, last_fetch_date, now)} :
        /\ fetch_count_today' = sf.fetch_count_today
        /\ last_fetch_date' = sf.last_fetch_date
        /\ attempts' = CountAttempts(attempts, last_fetch_date, sf.ok, now)
        /\ threads' = [threads EXCEPT ![th] =
              [pc    |-> IF sf.ok THEN "stamp" ELSE "done",
               seen  |-> [cached_fixture    |-> cached_fixture,
                          last_fetch_time   |-> last_fetch_time,
                          fetch_count_today |-> sf.fetch_count_today,
                          last_fetch_date   |-> sf.last_fetch_date],
               count |-> 0,
               resp  |-> resp,
               ret   |-> cached_fixture]]
    /\ UNCHANGED <<now, last_fetch_time, cached_fixture, call,
                   dormant_fetches, web, formatted, image>>

\* Line 90: self.last_fetch_time = datetime.now(tz)
Stamp(th) ==
    /\ threads[th].pc = "stamp"
    /\ last_fetch_time' = now
    /\ threads' = [threads EXCEPT ![th].pc = "load"]
    /\ UNCHANGED <<now, cached_fixture, fetch_count_today, last_fetch_date,
                   call, dormant_fetches, attempts, web, formatted, image>>

\* Line 91, first half: the read of self.fetch_count_today
Load(th) ==
    /\ threads[th].pc = "load"
    /\ threads' = [threads EXCEPT ![th].pc = "store",
                                  ![th].count = fetch_count_today]
    /\ UNCHANGED <<now, last_fetch_time, cached_fixture, fetch_count_today,
                   last_fetch_date, call, dormant_fetches, attempts, web,
                   formatted, image>>

\* Line 91, second half: the write of the value read plus one
Store(th) ==
    /\ threads[th].pc = "store"
    /\ fetch_count_today' = threads[th].count + 1
    /\ threads' = [threads EXCEPT ![th].pc = "poll"]
    /\ UNCHANGED <<now, last_fetch_time, cached_fixture, last_fetch_date,
                   call, dormant_fetches, attempts, web, formatted, image>>

\* Lines 93-151: the upstream answers, and the cache is assigned or returned
Finish(th) ==
    /\ threads[th].pc = "poll"
    /\ \E p \in {Poll(cached_fixture, now, threads[th].resp)} :
        /\ cached_fixture' = p.cached_fixture
        /\ threads' = [threads EXCEPT ![th].pc = "done", ![th].ret = p.ret]
    /\ UNCHANGED <<now, last_fetch_time, fetch_count_today, last_fetch_date,
                   call, dormant_fetches, attempts, web, formatted, image>>

\* The caller has its value and may call again
Return(th) ==
    /\ threads[th].pc = "done"
    /\ threads' = [threads EXCEPT ![th] = Idle]
    /\ UNCHANGED <<now, last_fetch_time, cached_fixture, fetch_count_today,
                   last_fetch_date, call, dormant_fetches, attempts, web,
                   formatted, image>>

-----------------------------------------------------------------------------
(* The web layer: GET /api/football/fixture (blueprints/main.py) *)

WebMaxShort == 2
WebMaxLong == 1

\* What flask's JSON provider makes of a datetime: an HTTP date in GMT
HttpDate(t) ==
    TwoDigits(DateOf(t) + 1) \o <<" ">> \o MonthAbbr \o <<" ">>
        \o TwoDigits((t % Day) \div 3600) \o <<":">>
        \o TwoDigits((t % 3600) \div 60) \o <<":">>
        \o TwoDigits(t % 60) \o <<" ", "G", "M", "T">>

\* jsonify(fixture): the record as a JSON object
Jsonify(fixture) ==
    [home_team  |-> fixture.home_team,
     away_team  |-> fixture.away_team,
     score      |-> fixture.score,
     status     |-> fixture.status,
     is_live    |-> fixture.is_live,
     league     |-> fixture.league,
     match_date |-> IF fixture.match_date = NoTime THEN <<"null">>
                    ELSE HttpDate(fixture.match_date)]

\* jsonify({"error": message}), status
ErrorResponse(message, status) ==
    [status |-> status, body |-> [error |-> message]]

\* Mutation: a request without a fixture is reported as a server error
FixtureResponse_absent_is_500(fixture) ==
    IF fixture # NoFixture THEN [status |-> 200, body |-> Jsonify(fixture)]
    ELSE ErrorResponse("No fixtures found", 500)

\* Lines 323-328: the response for what the poller returned
FixtureResponse(fixture) ==
    IF fixture # NoFixture THEN [status |-> 200, body |-> Jsonify(fixture)]
    ELSE ErrorResponse("No fixtures found", 404)

\* Lines 312-332 at clock t: the configuration lookup raises or not, a poller
\* is constructed for the request (line 320) and called once (line 321)
Endpoint(config_ok, t, resp) ==
    IF ~config_ok
    THEN [response |-> ErrorResponse("DEVICE_CONFIG", 500), fetched |-> FALSE,
          exc |-> FALSE, fixture |-> NoFixture]
    ELSE LET football == Pre0
             sf == should_fetch(football.cached_fixture,
                                football.last_fetch_time,
                                football.fetch_count_today,
                                football.last_fetch_date, t)
             p  == IF sf.ok THEN Poll(football.cached_fixture, t, resp)
                   ELSE [raised |-> FALSE, exc |-> FALSE,
                         ret |-> football.cached_fixture]
         IN  [response |-> IF p.raised THEN ErrorResponse("exception", 500)
                           ELSE FixtureResponse(p.ret),
              fetched  |-> sf.ok,
              exc      |-> p.exc,
              fixture  |-> p.ret]

\* One request served.  The poller is local to the request: the fields of
\* no other poller are read or written.
get_football_fixture(config_ok, resp) ==
    /\ \E r \in {Endpoint(config_ok, now, resp)} :
           web' = [made      |-> TRUE,
                   at        |-> now,
                   config_ok |-> config_ok,
                   resp      |-> resp,
                   status    |-> r.response.status,
                   body      |-> r.response.body,
                   fetched   |-> r.fetched,
                   exc       |-> r.exc,
                   fixture   |-> r.fixture,
                   prev      |-> [made    |-> web.made,
                                  at      |-> web.at,
                                  fetched |-> web.fetched,
                                  fixture |-> web.fixture]]
    /\ UNCHANGED <<now, last_fetch_time, cached_fixture, fetch_count_today,
                   last_fetch_date, call, dormant_fetches, attempts, threads,
                   formatted, image>>

-----------------------------------------------------------------------------
(* _format_fixture on its own *)

\* The events formatted: every status type with every period, with and
\* without a status text, with a date that parses, one that does not and
\* none, the competitors flagged home/away or not
FormatTypes ==
    {"STATUS_IN_PROGRESS", "STATUS_HALFTIME", "STATUS_END_PERIOD",
     "STATUS_FINAL", "STATUS_SCHEDULED", "STATUS_POSTPONED"}
FormatPeriods == 0..3
FormatDetails == {<<>>, <<"P","o","s","t","p","o","n","e","d">>}
FormatDates == {Iso(Tomorrow), Garbage, Empty}

FormatEvents ==
    {Event(cs, type, period, <<"45">>, detail, date) :
        cs \in {Flagged, Unflagged}, type \in FormatTypes,
        period \in FormatPeriods, detail \in FormatDetails,
        date \in FormatDates}
    \cup {EvNoCompetition}

FormatLeagues == {leagues[i] : i \in 1..NumLeagues}

\* The upstream offering an event whose date does not parse, alone and next
\* to a dated one
BadDateWorlds ==
    { <<"postponed", "none", "none", "none">>,
      <<"none", "unscheduled", "none", "none">>,
      <<"none", "unscheduled", "none", "tomorrow">> }

\* _format_fixture(event, league_name), called once in a behaviour
Format(event, league_name) ==
    /\ ~formatted.made
    /\ formatted' = [made    |-> TRUE,
                     event   |-> event,
                     league  |-> league_name,
                     fixture |-> _format_fixture(event, league_name)]
    /\ UNCHANGED <<now, last_fetch_time, cached_fixture, fetch_count_today,
                   last_fetch_date, call, dormant_fetches, attempts, web,
                   threads, image>>

-----------------------------------------------------------------------------
(* The web layer: GET /api/current_image (blueprints/main.py)

   The clock of this endpoint is the epoch clock in seconds (os.path.getmtime
   and datetime.timestamp() count from the epoch, in UTC).  A naive datetime
   is a wall-clock reading, here the number of seconds the wall clock shows;
   the server's timezone decides which instant a reading stands for.  The
   text of an HTTP date carries the wall-clock reading it spells and the
   letters GMT, nothing else. *)

ImgMaxSeconds == 1
ImgMaxHours == 2

Hour == 3600
ImgStart == 10 * Hour

\* The server's timezone: the offset of local time from UTC in winter (std)
\* and in summer (dst), and the instant at which the clocks go back from
\* the one to the other (NoTime: the zone has no summer time)
UTC == [name |-> "UTC", std |-> 0, dst |-> 0, back |-> NoTime]
East == [name |-> "east", std |-> Hour, dst |-> Hour, back |-> NoTime]
West == [name |-> "west", std |-> 0 - Hour, dst |-> 0 - Hour, back |-> NoTime]
Autumn ==
    [name |-> "autumn", std |-> Hour, dst |-> 2 * Hour, back |-> ImgStart + Hour]

ImageZones == {UTC, East, West, Autumn}

\* The offset of local time at the instant e
LocalOffset(zone, e) ==
    IF zone.back # NoTime /\ e < zone.back THEN zone.dst ELSE zone.std

\* datetime.fromtimestamp(e): the naive local reading of the instant e
FromTimestamp(zone, e) == e + LocalOffset(zone, e)

\* naive.timestamp(): the instant of a local reading; a reading the clocks
\* show twice (in the hour after they went back) stands for the first
Timestamp(zone, wall) ==
    IF zone.back # NoTime /\ wall - zone.dst < zone.back
    THEN wall - zone.dst
    ELSE wall - zone.std

\* Request and response headers that hold a date
NoHeader == [text |-> "absent", wall |-> NoTime]
GarbageHeader == [text |-> "garbage", wall |-> NoTime]
HttpDateHeader(wall) == [text |-> "http-date", wall |-> wall]

\* datetime.strptime(header, '%a, %d %b %Y %H:%M:%S %Z'): a naive reading,
\* or ValueError
Strptime(header) ==
    IF header.text = "http-date" THEN [ok |-> TRUE, wall |-> header.wall]
    ELSE [ok |-> FALSE, wall |-> NoTime]

\* last_modified.strftime('%a, %d %b %Y %H:%M:%S GMT')
StrftimeGMT(wall) == HttpDateHeader(wall)

\* The image file: absent, or written at second .sec of the epoch clock and
\* .half half-seconds (getmtime is a float)
NoFile == [exists |-> FALSE, sec |-> NoTime, half |-> 0]

\* int(os.path.getmtime(image_path))
FileMtime(file) == file.sec

NoResponse ==
    [made |-> FALSE, header |-> NoHeader, echo |-> FALSE, status |-> 0,
     body |-> NoFile, last_modified |-> NoHeader, file |-> NoFile,
     served_for |-> NoTime]
NothingServed == [header |-> NoHeader, file_mtime |-> NoTime]

\* Lines 291-301: the endpoint's own test of If-Modified-Since
NotModifiedSince(zone, file_mtime, if_modified_since) ==
    /\ if_modified_since.text # "absent"
    /\ LET client_mtime == Strptime(if_modified_since)
       IN  /\ client_mtime.ok
           /\ file_mtime <= Timestamp(zone, client_mtime.wall)

\* send_file(image_path, mimetype='image/png'): the file, or, where the
\* installed flask makes the response conditional by default, 304 when the
\* file's time is not later than If-Modified-Since read as the GMT time it
\* spells
SendFile(conditional, file, if_modified_since) ==
    IF /\ conditional
       /\ if_modified_since.text = "http-date"
       /\ FileMtime(file) <= if_modified_since.wall
    THEN [status |-> 304, body |-> NoFile]
    ELSE [status |-> 200, body |-> file]

\* Lines 279-307: the response to one request
CurrentImage(zone, conditional, file, if_modified_since) ==
    IF ~file.exists
    THEN [status |-> 404, body |-> [error |-> "Image not found"],
          last_modified |-> NoHeader]
    ELSE LET file_mtime == FileMtime(file)
             last_modified == FromTimestamp(zone, file_mtime)
         IN  IF NotModifiedSince(zone, file_mtime, if_modified_since)
             THEN [status |-> 304, body |-> NoFile,
                   last_modified |-> NoHeader]
             ELSE LET response == SendFile(conditional, file, if_modified_since)
                  IN  [status |-> response.status, body |-> response.body,
                       last_modified |-> StrftimeGMT(last_modified)]

\* The dates a client may send that it was not served: the readings of the
\* clock of the exploration, an hour or two earlier and later
HeaderWalls ==
    {ImgStart + s + h * Hour :
        s \in 0..ImgMaxSeconds, h \in (0 - 2)..(ImgMaxHours + 2)}

\* The process starts: its timezone, and whether its flask makes send_file
\* conditional by default (2.0 and later do)
Boot(zone, conditional) ==
    /\ ~image.booted
    /\ image' = [image EXCEPT !.booted = TRUE, !.zone = zone,
                              !.conditional = conditional]
    /\ UNCHANGED <<now, last_fetch_time, cached_fixture, fetch_count_today,
                   last_fetch_date, call, dormant_fetches, attempts, web,
                   threads, formatted>>

\* The display refresh writes current_image.png
WriteImage(half) ==
    /\ image.booted
    /\ image' = [image EXCEPT
                    !.file = [exists |-> TRUE, sec |-> image.clock,
                              half |-> half],
                    !.resp = NoResponse]
    /\ UNCHANGED <<now, last_fetch_time, cached_fixture, fetch_count_today,
                   last_fetch_date, call, dormant_fetches, attempts, web,
                   threads, formatted>>

\* The epoch clock advances by d seconds
ImageTick(d) ==
    /\ image.booted
    /\ image.clock + d <= ImgStart + ImgMaxSeconds + ImgMaxHours * Hour
    /\ (d = 1) => (image.clock - ImgStart) % Hour < ImgMaxSeconds
    /\ image' = [image EXCEPT !.clock = image.clock + d, !.resp = NoResponse]
    /\ UNCHANGED <<now, last_fetch_time, cached_fixture, fetch_count_today,
                   last_fetch_date, call, dormant_fetches, attempts, web,
                   threads, formatted>>

\* One request served.  The client remembers the Last-Modified value of the
\* response, when it has one, and the file time it was served for.
get_current_image(if_modified_since) ==
    /\ image.booted
    /\ \E r \in {CurrentImage(image.zone, image.conditional, image.file,
                             if_modified_since)} :
        image' = [image EXCEPT
            !.resp = [made          |-> TRUE,
                      header        |-> if_modified_since,
                      echo          |-> /\ if_modified_since.text # "absent"
                                        /\ if_modified_since = image.served.header,
                      status        |-> r.status,
                      body          |-> r.body,
                      last_modified |-> r.last_modified,
                      file          |-> image.file,
                      served_for    |-> image.served.file_mtime],
            !.served = IF r.last_modified.text = "absent" THEN image.served
                       ELSE [header     |-> r.last_modified,
                             file_mtime |-> FileMtime(image.file)]]
    /\ UNCHANGED <<now, last_fetch_time, cached_fixture, fetch_count_today,
                   last_fetch_date, call, dormant_fetches, attempts, web,
                   threads, formatted>>

-----------------------------------------------------------------------------
(* The machine *)

\* No request has been served yet
NoRequest ==
    [made |-> FALSE, at |-> NoTime, fetched |-> FALSE, fixture |-> NoFixture]

\* The server process has not started; there is no image file yet
NoServer ==
    [booted |-> FALSE, zone |-> UTC, conditional |-> FALSE, clock |-> ImgStart,
     file |-> NoFile, resp |-> NoResponse, served |-> NothingServed]

\* _format_fixture has not been called
NotFormatted ==
    [made |-> FALSE, event |-> EvNoCompetition, league |-> "", fixture |-> NoFixture]

Init ==
    /\ now = StartTime
    /\ last_fetch_time = NoTime
    /\ cached_fixture = NoFixture
    /\ fetch_count_today = 0
    /\ last_fetch_date = NoTime
    /\ call = NoCall
    /\ dormant_fetches = [date |-> 0, n |-> 0]
    /\ attempts = 0
    /\ web = NoRequest
    /\ threads = [th \in Threads |-> Idle]
    /\ formatted = NotFormatted
    /\ image = NoServer

\* The clock advances by half an active window, at most maxShort times
\* between two long steps
TickShort(maxShort) ==
    /\ ((now - StartTime) % LongTick) \div ShortTick < maxShort
    /\ now' = now + ShortTick
    /\ call' = NoCall
    /\ UNCHANGED <<last_fetch_time, cached_fixture, fetch_count_today,
                   last_fetch_date, dormant_fetches, attempts, others>>

\* The clock advances by half a dormant window
TickLong(maxLong) ==
    /\ (now - StartTime) \div LongTick < maxLong
    /\ now' = now + LongTick
    /\ call' = NoCall
    /\ UNCHANGED <<last_fetch_time, cached_fixture, fetch_count_today,
                   last_fetch_date, dormant_fetches, attempts, others>>

Next ==
    \/ TickShort(MaxShort)
    \/ TickLong(MaxLong)
    \/ \E resp \in PolicyWorlds : get_next_or_live_fixture(resp)

Spec == Init /\ [][Next]_vars

\* The first call of a freshly constructed poller, at any clock and against
\* any upstream of SelectWorlds
FirstCall ==
    /\ last_fetch_date = NoTime
    /\ \E resp \in SelectWorlds : get_next_or_live_fixture(resp)

NextSelect ==
    \/ TickShort(SelMaxShort)
    \/ TickLong(SelMaxLong)
    \/ FirstCall

SpecSelect == Init /\ [][NextSelect]_vars

\* Two callers on the one poller, their statements interleaved
NextConc ==
    \/ \E th \in Threads, resp \in ConcWorlds : Enter(th, resp)
    \/ \E th \in Threads : Stamp(th)
    \/ \E th \in Threads : Load(th)
    \/ \E th \in Threads : Store(th)
    \/ \E th \in Threads : Finish(th)
    \/ \E th \in Threads : Return(th)
    \/ TickShort(ConcMaxShort)

SpecConc == Init /\ [][NextConc]_vars

\* _format_fixture on every event of FormatEvents, and the first poll of a
\* poller given events whose date does not parse
NextFormat ==
    \/ \E event \in FormatEvents, league_name \in FormatLeagues :
           Format(event, league_name)
    \/ /\ last_fetch_date = NoTime
       /\ \E resp \in BadDateWorlds : get_next_or_live_fixture(resp)

SpecFormat == Init /\ [][NextFormat]_vars

NextWeb ==
    \/ \E config_ok \in BOOLEAN, resp \in PolicyWorlds :
           get_football_fixture(config_ok, resp)
    \/ TickShort(WebMaxShort)
    \/ TickLong(WebMaxLong)

SpecWeb == Init /\ [][NextWeb]_vars

\* The image endpoint: the file is written, the clock advances, and clients
\* ask with no date, a date that does not parse, any date of HeaderWalls, or
\* the Last-Modified value they were served
NextImage ==
    \/ \E zone \in ImageZones, conditional \in BOOLEAN : Boot(zone, conditional)
    \/ \E half \in {0, 1} : WriteImage(half)
    \/ \E d \in {1, Hour} : ImageTick(d)
    \/ \E if_modified_since \in
            {NoHeader, GarbageHeader, image.served.header}
                \cup {HttpDateHeader(w) : w \in HeaderWalls} :
           get_current_image(if_modified_since)

SpecImage == Init /\ [][NextImage]_vars

-----------------------------------------------------------------------------
(* Properties *)

\* The fetch counter as the quota check of the observed call read it
CountAtCheck ==
    IF call.pre.last_fetch_date # DateOf(now) THEN 0 ELSE call.pre.fetch_count_today

\* The time since the last fetch attempt, as the observed call found it
Elapsed == now - call.pre.last_fetch_time

Failed(name) == Answer(name).raises \/ Answer(name).status_code # 200

\* C1: get_next_or_live_fixture() never raises to its caller; it returns a
\* fixture record or None, and when an exception occurred in the fetch and
\* aggregation the value returned is the cache as it was before the call
\* (which the call leaves in place).
C1_NeverRaises ==
    call.made =>
        /\ ~call.raised
        /\ (call.ret = NoFixture \/ call.ret.present)
        /\ call.exc => /\ call.ret = call.pre.cached_fixture
                       /\ cached_fixture = call.pre.cached_fixture

\* C1 witness: an exception was caught while a fixture was cached
C1_Witness ==
    /\ call.made /\ call.exc
    /\ call.pre.cached_fixture # NoFixture
    /\ call.ret = call.pre.cached_fixture

\* C2: when the upstream query fails (raises, or answers with a status
\* other than 200) for every league of a poll, the call returns the value
\* cached before it and the cache is unchanged.
C2_TotalFailure ==
    (call.fetched /\ \A i \in 1..NumLeagues : Failed(call.resp[i])) =>
        /\ call.ret = call.pre.cached_fixture
        /\ cached_fixture = call.pre.cached_fixture
        /\ ~call.raised

\* C2 witness: every league failed, by an exception and by a status, while a
\* fixture was cached
C2_Witness ==
    /\ call.fetched
    /\ \A i \in 1..NumLeagues : Failed(call.resp[i])
    /\ \E i \in 1..NumLeagues : Answer(call.resp[i]).raises
    /\ \E i \in 1..NumLeagues : ~Answer(call.resp[i]).raises
    /\ call.pre.cached_fixture # NoFixture
    /\ call.ret = call.pre.cached_fixture

\* C3: within one calendar day, at most 5 fetches are started while the
\* cached fixture is dormant.
C3_DormantQuota == dormant_fetches.n <= DailyLimit

\* C3 witness: the fifth dormant fetch of a day was just started
C3_Witness ==
    /\ dormant_fetches.n = DailyLimit
    /\ call.fetched
    /\ Dormant(call.pre.cached_fixture, now)

\* C4: a call arriving on a date other than last_fetch_date sets
\* fetch_count_today to 0 and last_fetch_date to today before its quota
\* check: after the call the counter holds only this call's own fetch, and a
\* dormant cache outside the spacing window is fetched whatever the counter
\* had reached the day before.
C4_DayRollover ==
    (call.made /\ call.pre.last_fetch_date # DateOf(now)) =>
        /\ last_fetch_date = DateOf(now)
        /\ fetch_count_today = (IF call.fetched THEN 1 ELSE 0)
        /\ (Dormant(call.pre.cached_fixture, now) /\ Elapsed >= DormantGap)
              => call.fetched

\* C4 witness: a dormant cache whose quota was exhausted the day before is
\* fetched on the new day
C4_Witness ==
    /\ call.fetched
    /\ call.pre.last_fetch_date # NoTime
    /\ call.pre.last_fetch_date # DateOf(now)
    /\ call.pre.fetch_count_today >= DailyLimit
    /\ Dormant(call.pre.cached_fixture, now)
    /\ fetch_count_today = 1

\* C5: with an active cache (live, or a game-day fixture) a call fetches
\* exactly when there was no prior fetch or at least 1 minute has passed
\* since last_fetch_time, whatever fetch_count_today; a blocked call returns
\* the cached object.
C5_ActiveGate ==
    (call.made /\ Active(call.pre.cached_fixture, now)) =>
        /\ call.fetched <=>
              (call.pre.last_fetch_time = NoTime \/ Elapsed >= ActiveGap)
        /\ ~call.fetched => /\ call.ret = call.pre.cached_fixture
                            /\ cached_fixture = call.pre.cached_fixture

\* C5 witness: an active cache is fetched exactly 1 minute after the last
\* fetch, with the day's counter at the quota
C5_Witness ==
    /\ call.fetched
    /\ Active(call.pre.cached_fixture, now)
    /\ CountAtCheck >= DailyLimit
    /\ Elapsed = ActiveGap

\* C6: with a dormant cache a call is blocked whenever the counter (as the
\* quota check reads it, after the day-rollover reset of that call) has
\* reached 5, whatever the time since last_fetch_time; below 5 it fetches
\* exactly when there was no prior fetch or at least 4 h 48 min have passed.
C6_DormantGate ==
    (call.made /\ Dormant(call.pre.cached_fixture, now)) =>
        IF CountAtCheck >= DailyLimit THEN ~call.fetched
        ELSE call.fetched <=>
               (call.pre.last_fetch_time = NoTime \/ Elapsed >= DormantGap)

\* C6 witness: the quota blocks a dormant cache although the spacing window
\* has passed
C6_Witness ==
    /\ call.made /\ ~call.fetched
    /\ Dormant(call.pre.cached_fixture, now)
    /\ CountAtCheck >= DailyLimit
    /\ Elapsed >= DormantGap

\* The candidates the observed poll collected, in league priority order
Candidates == CollectFixtures(1, <<>>, call.resp).all_fixtures

\* The leagues whose query failed in the observed poll
FailedLeagues == {i \in 1..NumLeagues : Failed(call.resp[i])}

\* The answers of the observed poll, a failed league counted as one without
\* a fixture
WithoutFailed ==
    [i \in 1..NumLeagues |-> IF Failed(call.resp[i]) THEN "none" ELSE call.resp[i]]

\* C7: when the query of a single league fails (network error, timeout or a
\* status other than 200) the poll is not aborted: all leagues are queried
\* and the cache is the selection among the candidates of the other leagues.
C7_SingleFailureSkipped ==
    (call.fetched /\ Cardinality(FailedLeagues) = 1
        /\ \A i \in 1..NumLeagues \ FailedLeagues : Answer(call.resp[i]).body_ok) =>
        /\ call.queried = NumLeagues
        /\ ~call.exc
        /\ cached_fixture =
              Poll(call.pre.cached_fixture, now, WithoutFailed).cached_fixture

\* C8: when the candidates of a poll include a live fixture, the fixture
\* cached and returned is the first live candidate in league priority
\* order, also when a candidate that is not live comes before it.
C8_LivePriority ==
    (call.fetched /\ ~call.exc /\ \E k \in 1..Len(Candidates) : Candidates[k].is_live) =>
        /\ cached_fixture.is_live
        /\ call.ret = cached_fixture
        /\ \E k \in 1..Len(Candidates) :
              /\ cached_fixture = Candidates[k]
              /\ \A j \in 1..(k - 1) : ~Candidates[j].is_live

\* C8 witness: a scheduled fixture from the first league, a live one from the
\* second, and the live one is cached
C8_Witness ==
    /\ call.fetched
    /\ call.resp[1] = "eve" /\ call.resp[2] = "live"
    /\ cached_fixture.is_live
    /\ cached_fixture.league = leagues[2]

\* The dated candidates of the observed poll, in league priority order
Dated == SelectSeq(Candidates, HasDate)

\* C9: when no candidate is live, the poll selects the dated candidate whose
\* match_date is nearest to now in absolute time, the first in league
\* priority order on a tie; when no candidate is dated, the first candidate.
C9_NearestDate ==
    (call.fetched /\ ~call.exc /\ Candidates # <<>>
        /\ \A k \in 1..Len(Candidates) : ~Candidates[k].is_live) =>
        /\ call.ret = cached_fixture
        /\ IF Dated # <<>>
           THEN \E k \in 1..Len(Dated) :
                   /\ cached_fixture = Dated[k]
                   /\ \A j \in 1..Len(Dated) :
                         AbsDiff(Dated[k].match_date, now)
                            <= AbsDiff(Dated[j].match_date, now)
                   /\ \A j \in 1..(k - 1) :
                         AbsDiff(Dated[j].match_date, now)
                            > AbsDiff(Dated[k].match_date, now)
           ELSE cached_fixture = Candidates[1]

\* C9 witness: an undated candidate first, then three dated ones of which a
\* past one and a future one are equally near: the past one, earlier in
\* priority order, is cached
C9_Witness ==
    /\ call.fetched
    /\ Len(Candidates) = NumLeagues /\ Len(Dated) = 3
    /\ ~HasDate(Candidates[1])
    /\ Dated[1].match_date > now
    /\ Dated[2].match_date < now
    /\ now - Dated[2].match_date = Dated[3].match_date - now
    /\ Dated[1].match_date - now > now - Dated[2].match_date
    /\ cached_fixture = Dated[2]

\* C10 as the spec states it: a call that should_fetch() blocks returns the
\* cache, makes no upstream request and changes no field of the poller.
C10_BlockedNoSideEffects ==
    (call.made /\ ~call.fetched) =>
        /\ call.ret = call.pre.cached_fixture
        /\ call.queried = 0
        /\ Pre = call.pre

\* C10 as amended: a blocked call returns the cache, makes no upstream
\* request and leaves cached_fixture and last_fetch_time unchanged;
\* fetch_count_today and last_fetch_date are unchanged too unless the call
\* arrives on a date other than last_fetch_date, when they become 0 and today.
C10_BlockedOnlyResets ==
    (call.made /\ ~call.fetched) =>
        /\ call.ret = call.pre.cached_fixture
        /\ call.queried = 0
        /\ cached_fixture = call.pre.cached_fixture
        /\ last_fetch_time = call.pre.last_fetch_time
        /\ IF call.pre.last_fetch_date = DateOf(now)
           THEN /\ fetch_count_today = call.pre.fetch_count_today
                /\ last_fetch_date = call.pre.last_fetch_date
           ELSE /\ fetch_count_today = 0
                /\ last_fetch_date = DateOf(now)

\* C10 witness: a call blocked on the day after the last fetch, the counter
\* of that day not yet 0
C10_Witness ==
    /\ call.made /\ ~call.fetched
    /\ call.pre.last_fetch_date # DateOf(now)
    /\ call.pre.fetch_count_today > 0
    /\ fetch_count_today = 0

\* C11: whenever cached_fixture is absent a call starts a poll, whatever
\* last_fetch_time, fetch_count_today and the time of day are; so does the
\* first call on a freshly constructed poller.
C11_AbsentAlwaysFetches ==
    /\ (call.made /\ call.pre.cached_fixture = NoFixture) =>
           /\ call.fetched
           /\ call.queried >= 1
           /\ last_fetch_time = now
    /\ (call.made /\ call.pre = Pre0) => call.fetched

\* C11 witness: a poll started without a cached fixture in the very second of
\* the previous one, and one started with the counter of the day at the limit
C11_Witness ==
    /\ call.made /\ call.fetched
    /\ call.pre.cached_fixture = NoFixture
    /\ \/ call.pre.last_fetch_time = now
       \/ CountAtCheck >= DailyLimit


\* The rate window that the fixture returned by the previous request opens,
\* as the clock stands now
RateWindow(fixture) ==
    IF Active(fixture, now) THEN ActiveGap ELSE DormantGap

\* C12: the poller state consulted by the endpoint outlives the request:
\* a request that arrives inside the rate window of the poll made by the
\* request before it is answered from the cache (the fixture that request
\* returned) without a new poll.
C12_StateRetainedAcrossRequests ==
    (/\ web.made /\ web.config_ok
     /\ web.prev.made /\ web.prev.fetched
     /\ web.prev.fixture # NoFixture
     /\ now - web.prev.at < RateWindow(web.prev.fixture)) =>
        /\ ~web.fetched
        /\ web.fixture = web.prev.fixture

\* C12, what the code does: every request that reaches the poller polls
C12_EveryRequestPolls ==
    (web.made /\ web.config_ok) => web.fetched

\* C12: a request polls in the second in which the request before it polled
\* and obtained a live fixture
C12_Witness ==
    /\ web.made /\ web.fetched
    /\ web.prev.made /\ web.prev.fetched
    /\ web.prev.fixture # NoFixture /\ web.prev.fixture.is_live
    /\ web.prev.at = now

\* C14: the endpoint answers 200 with the record when the poller returns a
\* fixture, 404 "No fixtures found" when it returns None, and 500 only when
\* the endpoint itself raised; a failure of the upstream inside the poller
\* never gives 500.
C14_ThreeOutcomes ==
    web.made =>
        /\ web.status \in {200, 404, 500}
        /\ (web.status = 500) <=> ~web.config_ok
        /\ (web.config_ok /\ web.fixture # NoFixture) =>
               /\ web.status = 200
               /\ web.body = Jsonify(web.fixture)
        /\ (web.config_ok /\ web.fixture = NoFixture) =>
               /\ web.status = 404
               /\ web.body = [error |-> "No fixtures found"]
        /\ (web.config_ok /\ \E i \in 1..NumLeagues : Failed(web.resp[i])) =>
               web.status \in {200, 404}

\* C14 witness: a request during which the upstream raised, answered 404
C14_Witness ==
    /\ web.made /\ web.config_ok
    /\ web.exc
    /\ web.status = 404


\* C13: concurrent calls on one poller are serialized: two callers are never
\* both between a should_fetch() that said yes and the end of their call (so
\* they cannot both pass it on the same state), and fetch_count_today loses
\* no increment: whenever no call is in progress it is the number of polls
\* started since the reset.
C13_Serialized ==
    /\ \A a, b \in Threads :
           (a # b /\ threads[a].pc \in InCall) => threads[b].pc \notin InCall
    /\ (\A th \in Threads : threads[th].pc \notin InCall) =>
           fetch_count_today = attempts


\* C15: a call that passes should_fetch() sets last_fetch_time to now and
\* adds exactly 1 to fetch_count_today, whatever becomes of the poll (an
\* exception in the requests included); so in every reachable state
\* fetch_count_today is the number of polls started since the last
\* day-rollover reset.
C15_CountsAttempts ==
    /\ (call.made /\ call.fetched) =>
           /\ last_fetch_time = now
           /\ fetch_count_today = CountAtCheck + 1
    /\ fetch_count_today = attempts

\* C15 witness: a poll ended by an exception, the first after a day rollover
\* that reset a counter above 0, and one that is not the first of its day
C15_Witness ==
    /\ call.made /\ call.fetched /\ call.exc
    /\ \/ /\ call.pre.last_fetch_date # DateOf(now)
          /\ call.pre.fetch_count_today > 0
          /\ fetch_count_today = 1
       \/ fetch_count_today >= 2


\* C16: in every reachable state in which last_fetch_time is set,
\* last_fetch_date is the calendar date of last_fetch_time.
C16_DateOfLastFetch ==
    last_fetch_time # NoTime => last_fetch_date = DateOf(last_fetch_time)

\* C16 as amended: last_fetch_date is the date of the latest call, fetching
\* or blocked: after a call it is the date of that call, hence the date of
\* last_fetch_time after a call that fetched, and whenever last_fetch_time is
\* set it is the date of last_fetch_time or a later one.
C16_DateOfLastCall ==
    /\ call.made => last_fetch_date = DateOf(now)
    /\ (call.made /\ call.fetched) => last_fetch_date = DateOf(last_fetch_time)
    /\ last_fetch_time # NoTime => last_fetch_date >= DateOf(last_fetch_time)

\* C16 witness: after a call blocked on the day after the last fetch the two
\* dates differ
C16_Witness ==
    /\ call.made /\ ~call.fetched
    /\ last_fetch_time # NoTime
    /\ last_fetch_date = DateOf(now)
    /\ last_fetch_date > DateOf(last_fetch_time)


\* The fields of a fixture record
FixtureFields ==
    {"present", "home_team", "away_team", "score", "status", "is_live",
     "league", "match_date"}

\* C17: cached_fixture is never partially updated: after a call it is the
\* value it had before, or one whole candidate record of that call's poll;
\* a poll without candidates leaves it as it was and returns it (None when
\* there was none).
C17_CacheReplacedWhole ==
    call.made =>
        /\ \/ cached_fixture = call.pre.cached_fixture
           \/ /\ call.fetched /\ ~call.exc
              /\ \E k \in 1..Len(Candidates) : cached_fixture = Candidates[k]
        /\ cached_fixture # NoFixture => DOMAIN cached_fixture = FixtureFields
        /\ (call.fetched /\ Candidates = <<>>) =>
               /\ cached_fixture = call.pre.cached_fixture
               /\ call.ret = call.pre.cached_fixture

\* C17 witness: a poll that replaced a cached fixture by one of another
\* league, and a poll without candidates that kept the cached one
C17_Witness ==
    /\ call.made /\ call.fetched /\ ~call.exc
    /\ call.pre.cached_fixture # NoFixture
    /\ \/ /\ Candidates # <<>>
          /\ cached_fixture.league # call.pre.cached_fixture.league
       \/ /\ Candidates = <<>>
          /\ call.ret = call.pre.cached_fixture


\* The cached fixture the observed call found is not live and its match is
\* not today's: its date is another day's or, for a record without a date
\* (a finished match), the last poll that could have cached it was made on
\* an earlier day
NotLiveNotToday ==
    /\ call.pre.cached_fixture # NoFixture
    /\ ~call.pre.cached_fixture.is_live
    /\ IF call.pre.cached_fixture.match_date # NoTime
       THEN DateOf(call.pre.cached_fixture.match_date) # DateOf(now)
       ELSE DateOf(call.pre.last_fetch_time) < DateOf(now)

\* C18: a cached fixture is active only while it is live or is today's
\* match; one that is not live and whose match is not on the current day (a
\* finished match cached on an earlier day, say) is dormant: a call polls
\* exactly when the day's counter is below 5 and 4h48m have passed since the
\* last poll, the 1-minute gate playing no part.
C18_StaleFixtureIsDormant ==
    (call.made /\ NotLiveNotToday) =>
        (call.fetched <=>
            (CountAtCheck < DailyLimit /\ Elapsed >= DormantGap))

\* C18, what the code does with a finished fixture: it stays a game day on
\* every later day
C18_FinishedStaysActive ==
    (/\ call.made /\ NotLiveNotToday
     /\ Contains(call.pre.cached_fixture.status, <<"F", "T">>)) =>
        (call.fetched <=> Elapsed >= ActiveGap)


\* The status of the event just formatted, and the display made of it
FormattedStatus == formatted.event.competitions[1].status
FormattedDate == formatted.event.competitions[1].date
Display == formatted.fixture.status

\* C19: _format_fixture builds the status display from the upstream status:
\* the clock-based form for an event in progress, "HT" for every event at
\* halftime, "FT" for a finished one, and for any other the local date and
\* time parsed from its date, failing that the upstream status text, failing
\* that "Scheduled".
C19_DisplayByStatus ==
    (formatted.made /\ formatted.fixture # NoFixture) =>
        CASE FormattedStatus.type = "STATUS_IN_PROGRESS" ->
                 IsPrefix(FormattedStatus.displayClock \o <<"'">>, Display)
          [] FormattedStatus.type = "STATUS_HALFTIME" ->
                 Display = <<"H", "T">>
          [] FormattedStatus.type = "STATUS_FINAL" ->
                 Display = <<"F", "T">>
          [] FormattedStatus.type = "STATUS_END_PERIOD" -> TRUE
          [] OTHER ->
                 IF FormattedDate.text = "iso"
                 THEN Display = Strftime(FormattedDate.t)
                 ELSE IF FormattedStatus.shortDetail # <<>>
                 THEN Display = FormattedStatus.shortDetail
                 ELSE Display = <<"S","c","h","e","d","u","l","e","d">>

\* C19, what the code does: among live events the period decides before the
\* status does, so "HT" is shown only at a halftime whose period is neither
\* 1 nor 2, and the clock only in periods 1 and 2
C19_PeriodBeforeStatus ==
    (/\ formatted.made /\ formatted.fixture # NoFixture
     /\ FormattedStatus.type \in LiveStatusTypes) =>
        IF FormattedStatus.period \in {1, 2}
        THEN IsPrefix(FormattedStatus.displayClock \o <<"'">>, Display)
        ELSE IF FormattedStatus.type = "STATUS_HALFTIME"
        THEN Display = <<"H", "T">>
        ELSE Display \in {FormattedStatus.shortDetail, <<"L", "I", "V", "E">>}


\* The event just formatted is a scheduled one whose date does not parse
BadDate ==
    /\ formatted.made
    /\ formatted.event.competitions # <<>>
    /\ FormattedStatus.type \notin LiveStatusTypes \cup {"STATUS_FINAL"}
    /\ FormattedDate.text = "garbage"

\* The leagues that gave the observed poll an event whose date does not parse
BadDateLeagues ==
    {i \in 1..NumLeagues : call.resp[i] \in {"postponed", "unscheduled"}}

\* C20: a scheduled event whose date string does not parse still gives a
\* candidate record: its status display is the upstream status text, or
\* "Scheduled" when that is empty, its match_date is absent, and neither the
\* record nor the poll fails: the poll ends without an exception, the record
\* among its candidates.
C20_BadDateStillACandidate ==
    /\ BadDate =>
           /\ formatted.fixture # NoFixture
           /\ DOMAIN formatted.fixture = FixtureFields
           /\ Display = IF FormattedStatus.shortDetail # <<>>
                        THEN FormattedStatus.shortDetail
                        ELSE <<"S","c","h","e","d","u","l","e","d">>
           /\ formatted.fixture.match_date = NoTime
           /\ ~formatted.fixture.is_live
    /\ (call.made /\ call.fetched) =>
           /\ ~call.exc /\ ~call.raised
           /\ call.ret # NoFixture
           /\ \A i \in BadDateLeagues :
                  \E k \in 1..Len(Candidates) :
                      /\ Candidates[k].league = leagues[i]
                      /\ Candidates[k].match_date = NoTime

\* C20 witness: an event without a status text and with a date that does not
\* parse has been formatted as "Scheduled", and a poll has cached such a
\* record
C20_Witness ==
    /\ BadDate
    /\ FormattedStatus.shortDetail = <<>>
    /\ Display = <<"S","c","h","e","d","u","l","e","d">>
    /\ call.made /\ call.fetched /\ BadDateLeagues # {}
    /\ cached_fixture # NoFixture /\ cached_fixture.match_date = NoTime


\* The request just served by /api/current_image found the file at this
\* whole second
ServedMtime == FileMtime(image.resp.file)

\* The time of the If-Modified-Since header of that request, as the endpoint
\* reads it
HeaderTime == Timestamp(image.zone, image.resp.header.wall)

\* C21: /api/current_image is a conditional GET: 404 when the file is
\* missing; 304 with an empty body exactly when If-Modified-Since is present,
\* parses, and the file's time in whole seconds is not later than the
\* header's; otherwise the file with a Last-Modified header.  A client that
\* sends back the Last-Modified value it was served gets 304 while the file
\* is unmodified and the file once it was modified at a later second.
C21_ConditionalGet ==
    image.resp.made =>
        /\ (image.resp.status = 404) <=> ~image.resp.file.exists
        /\ image.resp.file.exists =>
            /\ (image.resp.status = 304) <=>
                   /\ image.resp.header.text = "http-date"
                   /\ ServedMtime <= HeaderTime
            /\ (image.resp.status = 304) => image.resp.body = NoFile
            /\ (image.resp.status # 304) =>
                   /\ image.resp.status = 200
                   /\ image.resp.body = image.resp.file
                   /\ image.resp.last_modified.text = "http-date"
            /\ image.resp.echo =>
                   /\ (ServedMtime = image.resp.served_for) =>
                          image.resp.status = 304
                   /\ (ServedMtime > image.resp.served_for) =>
                          /\ image.resp.status = 200
                          /\ image.resp.body = image.resp.file


\* C21, where the claim does hold: a server whose local time is UTC
C21_HoldsInUTC ==
    image.zone = UTC => C21_ConditionalGet


\* C22: once cached_fixture holds a record it never becomes absent again:
\* no step of the poller - a call blocked or polling, an upstream failure, an
\* empty result, a day rollover - takes a present cache to an absent one, and
\* a call that finds a record cached returns a record.
C22_CacheNeverCleared ==
    /\ [][cached_fixture # NoFixture => cached_fixture' # NoFixture]_vars
    /\ []((call.made /\ call.pre.cached_fixture # NoFixture) =>
              (call.ret # NoFixture /\ cached_fixture # NoFixture))

\* C22 witness: with a fixture cached, a poll on a later day that an
\* exception ended, or that found no fixture in any league, returned it
C22_Witness ==
    /\ call.made /\ call.fetched
    /\ call.pre.cached_fixture # NoFixture
    /\ call.pre.last_fetch_date # DateOf(now)
    /\ call.exc \/ Candidates = <<>>
    /\ call.ret = call.pre.cached_fixture


\* The observed call arrived on another date than last_fetch_date: it reset
\* the counter
ResetByCall == call.made /\ call.pre.last_fetch_date # DateOf(now)

\* C23: the day-rollover reset changes fetch_count_today and last_fetch_date
\* only, leaving last_fetch_time and cached_fixture; so both gates are
\* measured across midnight: the first call of a new day is blocked when
\* the cache is dormant and less than 4h48m have passed since the last poll
\* of the day before, or the cache is active and less than a minute has.
C23_ResetKeepsLastFetch ==
    ResetByCall =>
        /\ ~call.fetched =>
               /\ last_fetch_time = call.pre.last_fetch_time
               /\ cached_fixture = call.pre.cached_fixture
               /\ fetch_count_today = 0
               /\ last_fetch_date = DateOf(now)
        /\ call.fetched => fetch_count_today = 1
        /\ (Dormant(call.pre.cached_fixture, now) /\ Elapsed < DormantGap) =>
               ~call.fetched
        /\ (Active(call.pre.cached_fixture, now) /\ Elapsed < ActiveGap) =>
               ~call.fetched

\* C23 witness: the first call of a day, the cache dormant, blocked less
\* than 4h48m but more than a minute after the last poll of the day before
C23_Witness ==
    /\ ResetByCall /\ ~call.fetched
    /\ Dormant(call.pre.cached_fixture, now)
    /\ call.pre.fetch_count_today > 0
    /\ DateOf(call.pre.last_fetch_time) < DateOf(now)
    /\ Elapsed >= ActiveGap /\ Elapsed < DormantGap


\* The cache is dormant and the counter, being today's, is at the quota
QuotaSpent ==
    /\ Dormant(cached_fixture, now)
    /\ last_fetch_date = DateOf(now)
    /\ fetch_count_today >= DailyLimit

\* C24: the polls made while the cache is absent or active are counted in
\* the fetch_count_today that the dormant quota reads: a poll started with
\* the cache absent or active adds 1 to it; when the cache is dormant and the
\* day's counter is 5 or more no poll is started as long as the date stays
\* the same; and every poll started with the counter at 5 or more is
\* started with the cache absent or active.
C24_OneCounter ==
    /\ []((call.made /\ call.fetched) =>
              /\ ~Dormant(call.pre.cached_fixture, now) =>
                     fetch_count_today = CountAtCheck + 1
              /\ CountAtCheck >= DailyLimit =>
                     \/ call.pre.cached_fixture = NoFixture
                     \/ Active(call.pre.cached_fixture, now))
    /\ []((call.made /\ Dormant(call.pre.cached_fixture, now)
                     /\ CountAtCheck >= DailyLimit) => ~call.fetched)
    /\ [][(QuotaSpent /\ DateOf(now') = DateOf(now)) =>
              /\ last_fetch_time' = last_fetch_time
              /\ fetch_count_today' = fetch_count_today
              /\ attempts' = attempts
              /\ QuotaSpent']_vars

\* C24 witness: a call blocked by the quota alone - the cache dormant, 4h48m
\* and more since the last poll - on a day none of whose polls was made
\* with a dormant cache
C24_Witness ==
    /\ call.made /\ ~call.fetched
    /\ Dormant(call.pre.cached_fixture, now)
    /\ call.pre.last_fetch_date = DateOf(now)
    /\ call.pre.fetch_count_today >= DailyLimit
    /\ Elapsed >= DormantGap
    /\ dormant_fetches.date = DateOf(now) /\ dormant_fetches.n = 0

====
